---- MODULE Spec2Model ----
(***************************************************************************)
(* The agent loop (ai/agent.py: AIAgent.process_input), the tool registry  *)
(* and dispatcher it depends on (mcp/server.py) and the offline completion *)
(* backend (ai/adapters.py: LocalAdapter).                                 *)
(*                                                                         *)
(* A text is a sequence of characters.  One JSON document is written as a  *)
(* single unit of the text (a name of DocIds); the loop never looks inside *)
(* a document before json.loads decodes it, and DocValue gives the value   *)
(* it decodes to.  A string the loop returns or raises is a record holding *)
(* the parts that were formatted into it.                                  *)
(***************************************************************************)
EXTENDS Integers, Sequences, FiniteSets, TLC

\* ------------------------------------------------------------- bounds
\* The largest step budget process_input is called with.
MaxBudget == 2
\* The length of the longest undecodable reply (one past the preview cut).
MaxReplyLen == 501
\* How many chat calls the offline adapter's call_count is followed for.
MaxCallCount == 3

\* ---------------------------------------------------------- constants
\* The default step budget: int(os.getenv("MAX_CONVERSATION_STEPS", "6")).
MAX_CONVERSATION_STEPS == 6

\* --------------------------------------------------------- characters
Whitespace == {" ", "\n"}

RECURSIVE lstrip(_)
lstrip(s) ==
    IF s # <<>> /\ Head(s) \in Whitespace THEN lstrip(Tail(s)) ELSE s

RECURSIVE rstrip(_)
rstrip(s) ==
    IF s # <<>> /\ s[Len(s)] \in Whitespace
    THEN rstrip(SubSeq(s, 1, Len(s) - 1))
    ELSE s

\* str.strip()
strip(s) == rstrip(lstrip(s))

\* str.startswith / str.endswith
startswith(s, p) == Len(s) >= Len(p) /\ SubSeq(s, 1, Len(p)) = p
endswith(s, p) == Len(s) >= Len(p) /\ SubSeq(s, Len(s) - Len(p) + 1, Len(s)) = p

\* s[n:], s[:-n] and s[:n]
SliceFrom(s, n) == SubSeq(s, n + 1, Len(s))
SliceDropLast(s, n) == IF Len(s) >= n THEN SubSeq(s, 1, Len(s) - n) ELSE <<>>
SliceTo(s, n) == IF Len(s) > n THEN SubSeq(s, 1, n) ELSE s

\* "~" stands for the backquote character of a fenced code block marker.
Fence == <<"~", "~", "~">>
FenceJson == Fence \o <<"j", "s", "o", "n">>

\* _clean_json_response looking for the closing marker only after an opening one.
_clean_json_response_NestedEnd(reply) ==
    LET r0 == strip(reply)
        r1 == IF startswith(r0, FenceJson)
              THEN (IF endswith(r0, Fence) THEN SliceDropLast(SliceFrom(r0, 7), 3)
                    ELSE SliceFrom(r0, 7))
              ELSE IF startswith(r0, Fence)
              THEN (IF endswith(r0, Fence) THEN SliceDropLast(SliceFrom(r0, 3), 3)
                    ELSE SliceFrom(r0, 3))
              ELSE r0
    IN  strip(r1)

\* AIAgent._clean_json_response
_clean_json_response(reply) ==
    LET r0 == strip(reply)
        r1 == IF startswith(r0, FenceJson) THEN SliceFrom(r0, 7)
              ELSE IF startswith(r0, Fence) THEN SliceFrom(r0, 3)
              ELSE r0
        r2 == IF endswith(r1, Fence) THEN SliceDropLast(r1, 3) ELSE r1
    IN  strip(r2)

\* ------------------------------------------------------ tool registry
\* The functions the tool modules define under @tool(), in import order
\* (mcp/__init__.py imports tools, then tools_enhanced).
ImportOrder ==
    <<"tools.get_pods", "tools.get_persistent_volumes",
      "tools_enhanced.get_pod_yaml", "tools_enhanced.patch_deployment_replicas",
      "tools_enhanced.get_persistent_volumes">>

Fns == {ImportOrder[i] : i \in 1..Len(ImportOrder)}

\* fn.__name__
fn_name(fn) ==
    CASE fn = "tools.get_pods" -> "get_pods"
      [] fn = "tools_enhanced.get_pod_yaml" -> "get_pod_yaml"
      [] fn = "tools_enhanced.patch_deployment_replicas" -> "patch_deployment_replicas"
      [] OTHER -> "get_persistent_volumes"

\* The signature of each function: its parameters in order, those without a
\* default, those a keyword may name, and whether it takes **kwargs.
fn_signature(fn) ==
    CASE fn = "tools.get_pods" ->
            [parameters |-> <<"namespace", "kwargs">>, required |-> {},
             named |-> {"namespace"}, var_kw |-> TRUE]
      [] fn = "tools.get_persistent_volumes" ->
            [parameters |-> <<"kwargs">>, required |-> {},
             named |-> {}, var_kw |-> TRUE]
      [] fn = "tools_enhanced.get_pod_yaml" ->
            [parameters |-> <<"pod_name", "namespace">>, required |-> {"pod_name"},
             named |-> {"pod_name", "namespace"}, var_kw |-> FALSE]
      [] fn = "tools_enhanced.patch_deployment_replicas" ->
            [parameters |-> <<"deployment_name", "replicas", "namespace">>,
             required |-> {"deployment_name", "replicas"},
             named |-> {"deployment_name", "replicas", "namespace"}, var_kw |-> FALSE]
      [] OTHER ->
            [parameters |-> <<>>, required |-> {}, named |-> {}, var_kw |-> FALSE]

\* list(inspect.signature(fn).parameters.keys())
fn_parameters(fn) == fn_signature(fn).parameters

\* (fn.__doc__ or "")[:400]
fn_doc(fn) ==
    CASE fn = "tools.get_pods" -> "List all pods in a namespace with their status."
      [] fn = "tools.get_persistent_volumes" -> "List all persistent volumes in the cluster."
      [] fn = "tools_enhanced.get_pod_yaml" -> "Get the actual YAML manifest of an existing pod."
      [] fn = "tools_enhanced.patch_deployment_replicas" ->
            "Scale a deployment by updating its replica count."
      [] OTHER -> "List all Persistent Volumes in cluster."

NoName == "<None>"
NoFn == "<none>"

\* The keys of a dict kept as a sequence of [name, ...] entries, in order.
Keys(d) == [i \in 1..Len(d) |-> d[i].name]
KeySet(d) == {d[i].name : i \in 1..Len(d)}
HasKey(d, k) == k \in KeySet(d)
Lookup(d, k) == d[CHOOSE i \in 1..Len(d) : d[i].name = k]

\* dict.__setitem__: an existing key keeps its place, a new one goes last.
SetItem(d, k, v) ==
    IF HasKey(d, k)
    THEN [i \in 1..Len(d) |-> IF d[i].name = k THEN [name |-> k, fn |-> v] ELSE d[i]]
    ELSE Append(d, [name |-> k, fn |-> v])

\* tool(name)(fn) deleting a name that is already bound instead of rebinding it.
tool_PopExisting(reg, name, fn) ==
    LET key == IF name # NoName THEN name ELSE fn_name(fn)
    IN  IF HasKey(reg, key)
        THEN SelectSeq(reg, LAMBDA e : e.name # key)
        ELSE SetItem(reg, key, fn)

\* tool(name)(fn) assigning a new dict instead of an item of the registry.
tool_Reassign(reg, name, fn) ==
    LET key == IF name # NoName THEN name ELSE fn_name(fn)
    IN  <<[name |-> key, fn |-> fn]>>

\* tool(name)(fn) keeping the function a name is already bound to.
tool_KeepFirst(reg, name, fn) ==
    LET key == IF name # NoName THEN name ELSE fn_name(fn)
    IN  IF HasKey(reg, key) THEN reg ELSE SetItem(reg, key, fn)

\* tool(name)(fn): the registry after the decorator ran.
tool(reg, name, fn) ==
    LET key == IF name # NoName THEN name ELSE fn_name(fn)
    IN  SetItem(reg, key, fn)

\* list_tools leaving out the entry registered first.
list_tools_SkipFirst(reg) ==
    [i \in 1..(Len(reg) - 1) |->
        [name |-> reg[i + 1].name,
         args |-> fn_parameters(reg[i + 1].fn),
         doc  |-> fn_doc(reg[i + 1].fn)]]

\* list_tools()
list_tools(reg) ==
    [i \in 1..Len(reg) |->
        [name |-> reg[i].name,
         args |-> fn_parameters(reg[i].fn),
         doc  |-> fn_doc(reg[i].fn)]]

\* ------------------------------------------------------- JSON values
\* A tool_call's "args" value: a mapping (its items as <<key, value>> pairs)
\* or some other JSON value.
ArgsNamespace == [is_map |-> TRUE, items |-> {<<"namespace", "default">>}]
ArgsPod == [is_map |-> TRUE, items |-> {<<"pod", "nginx">>}]
ArgsReplicas == [is_map |-> TRUE, items |-> {<<"replicas", "3">>}]
ArgsEmpty == [is_map |-> TRUE, items |-> {}]
ArgsList == [is_map |-> FALSE, items |-> {}]

\* A tool_call's "name" value with its str() rendering: a string, None (the
\* key is absent), a number, or a list (unhashable).
NameStr(n) == [kind |-> "str", text |-> n]
NameNone == [kind |-> "none", text |-> "None"]
NameNumber == [kind |-> "number", text |-> "5"]
NameList == [kind |-> "list", text |-> "['get_pods']"]

\* The value under "tool_call": a mapping with its name and args, or not.
ToolCall(n, a) == [is_map |-> TRUE, name |-> n, has_args |-> TRUE, args |-> a]
ToolCallNoArgs(n) == [is_map |-> TRUE, name |-> n, has_args |-> FALSE, args |-> ArgsEmpty]
ToolCallString == [is_map |-> FALSE, name |-> NameNone, has_args |-> FALSE, args |-> ArgsEmpty]

\* An item of a data_response: a mapping (its pairs in order) or a scalar.
ItemText(t) == [is_map |-> FALSE, text |-> t, pairs |-> <<>>]
ItemMap(ps) == [is_map |-> TRUE, text |-> "{...}", pairs |-> ps]

\* The value under "data_response" ("" is an absent or empty string).
DataResponse(sm, fmt, its) ==
    [is_map |-> TRUE, summary |-> sm, format |-> fmt, items |-> its]
DataResponseString == [is_map |-> FALSE, summary |-> "", format |-> "", items |-> <<>>]

\* A "confidence" value: a number (as its percentage), absent, or a string.
ConfNumber(pct) == [kind |-> "number", pct |-> pct]
ConfAbsent == [kind |-> "absent", pct |-> 0]
ConfString == [kind |-> "string", pct |-> 0]

Absent == "<absent>"

\* The value under "final_response" (yaml is a text; "" and <<>> are absent
\* or empty values).
FinalResponse(an, rec, ym, kc, pc, cf) ==
    [is_map |-> TRUE, analysis |-> an, recommendation |-> rec, yaml |-> ym,
     kubectl |-> kc, post_checks |-> pc, confidence |-> cf]
FinalResponseString ==
    [is_map |-> FALSE, analysis |-> Absent, recommendation |-> Absent, yaml |-> <<>>,
     kubectl |-> "", post_checks |-> <<>>, confidence |-> ConfAbsent]

TopKeys == {"tool_call", "data_response", "final_response"}

\* A decoded reply: a number, boolean or null ("scalar"), a list or string
\* ("array", keys holding the top-level key names found in it), or a mapping
\* ("object") with the values under the three top-level keys (a placeholder
\* where keys lacks the key; the loop reads a value only under a key of keys).
Value(kind, keys, tc, dr, fr) ==
    [kind |-> kind, keys |-> keys, tool_call |-> tc, data_response |-> dr,
     final_response |-> fr]

Object(keys, tc, dr, fr) == Value("object", keys, tc, dr, fr)

\* LocalAdapter.chat's second reply.
LocalFinal ==
    FinalResponse("Cluster analysis complete. Found pods in default namespace.",
                  "All systems appear operational.",
                  <<>>,
                  "kubectl get pods -n default",
                  <<"Monitor pod restarts", "Check resource usage">>,
                  ConfNumber(85))

YamlFinal ==
    FinalResponse("ok", Absent, <<"a", "\\n", "b">>, "", <<>>, ConfAbsent)

FullFinal ==
    FinalResponse("CrashLoopBackOff", "Fix the command.", <<"a", "\\n", "b">>,
                  "kubectl apply -f fix.yaml", <<"Check rollout">>, ConfNumber(90))

TableData ==
    DataResponse("Pods", "table",
                 <<ItemMap(<<<<"name", "nginx">>>>), ItemText("redis")>>)
ListData == DataResponse("", "list", <<ItemText("nginx")>>)

\* The JSON documents a backend replies with.
DocIds ==
    {"5", "[1]", "[tool_call]", "{}",
     "{tool_call:get_pods(namespace)}", "{tool_call:get_pods[list]}",
     "{tool_call:get_pod_yaml}", "{tool_call:get_pod_yaml(pod)}",
     "{tool_call:get_persistent_volumes}",
     "{tool_call:patch_deployment_replicas}",
     "{tool_call:patch_deployment_replicas(replicas)}",
     "{tool_call:nonexistent_tool}", "{tool_call:{}}", "{tool_call:5}",
     "{tool_call:[get_pods]}", "{tool_call:string}",
     "{tool_call:get_pods,final_response}", "{data_response,final_response}",
     "{data_response:table}", "{data_response:list}", "{data_response:string}",
     "{final_response:local}", "{final_response:yaml}", "{final_response:full}",
     "{final_response:confidence=high}", "{final_response:string}"}

\* json.loads of one document.
DocValue(d) ==
    CASE d = "5" -> Value("scalar", {}, ToolCallString, DataResponseString, FinalResponseString)
      [] d = "[1]" -> Value("array", {}, ToolCallString, DataResponseString, FinalResponseString)
      [] d = "[tool_call]" ->
            Value("array", {"tool_call"}, ToolCallString, DataResponseString, FinalResponseString)
      [] d = "{}" -> Object({}, ToolCallString, DataResponseString, FinalResponseString)
      [] d = "{tool_call:get_pods(namespace)}" ->
            Object({"tool_call"}, ToolCall(NameStr("get_pods"), ArgsNamespace),
                   DataResponseString, FinalResponseString)
      [] d = "{tool_call:get_pod_yaml}" ->
            Object({"tool_call"}, ToolCallNoArgs(NameStr("get_pod_yaml")),
                   DataResponseString, FinalResponseString)
      [] d = "{tool_call:get_pod_yaml(pod)}" ->
            Object({"tool_call"}, ToolCall(NameStr("get_pod_yaml"), ArgsPod),
                   DataResponseString, FinalResponseString)
      [] d = "{tool_call:get_pods[list]}" ->
            Object({"tool_call"}, ToolCall(NameStr("get_pods"), ArgsList),
                   DataResponseString, FinalResponseString)
      [] d = "{tool_call:get_persistent_volumes}" ->
            Object({"tool_call"}, ToolCallNoArgs(NameStr("get_persistent_volumes")),
                   DataResponseString, FinalResponseString)
      [] d = "{tool_call:patch_deployment_replicas}" ->
            Object({"tool_call"}, ToolCallNoArgs(NameStr("patch_deployment_replicas")),
                   DataResponseString, FinalResponseString)
      [] d = "{tool_call:patch_deployment_replicas(replicas)}" ->
            Object({"tool_call"}, ToolCall(NameStr("patch_deployment_replicas"), ArgsReplicas),
                   DataResponseString, FinalResponseString)
      [] d = "{tool_call:nonexistent_tool}" ->
            Object({"tool_call"}, ToolCall(NameStr("nonexistent_tool"), ArgsEmpty),
                   DataResponseString, FinalResponseString)
      [] d = "{tool_call:{}}" ->
            Object({"tool_call"}, ToolCallNoArgs(NameNone),
                   DataResponseString, FinalResponseString)
      [] d = "{tool_call:5}" ->
            Object({"tool_call"}, ToolCallNoArgs(NameNumber),
                   DataResponseString, FinalResponseString)
      [] d = "{tool_call:[get_pods]}" ->
            Object({"tool_call"}, ToolCallNoArgs(NameList),
                   DataResponseString, FinalResponseString)
      [] d = "{tool_call:string}" ->
            Object({"tool_call"}, ToolCallString, DataResponseString, FinalResponseString)
      [] d = "{tool_call:get_pods,final_response}" ->
            Object({"tool_call", "final_response"},
                   ToolCall(NameStr("get_pods"), ArgsNamespace),
                   DataResponseString, LocalFinal)
      [] d = "{data_response,final_response}" ->
            Object({"data_response", "final_response"}, ToolCallString, ListData, LocalFinal)
      [] d = "{data_response:table}" ->
            Object({"data_response"}, ToolCallString, TableData, FinalResponseString)
      [] d = "{data_response:list}" ->
            Object({"data_response"}, ToolCallString, ListData, FinalResponseString)
      [] d = "{data_response:string}" ->
            Object({"data_response"}, ToolCallString, DataResponseString, FinalResponseString)
      [] d = "{final_response:local}" ->
            Object({"final_response"}, ToolCallString, DataResponseString, LocalFinal)
      [] d = "{final_response:yaml}" ->
            Object({"final_response"}, ToolCallString, DataResponseString, YamlFinal)
      [] d = "{final_response:full}" ->
            Object({"final_response"}, ToolCallString, DataResponseString, FullFinal)
      [] d = "{final_response:confidence=high}" ->
            Object({"final_response"}, ToolCallString, DataResponseString,
                   [LocalFinal EXCEPT !.confidence = ConfString])
      [] OTHER ->
            Object({"final_response"}, ToolCallString, DataResponseString, FinalResponseString)

\* json.loads: a text decodes when it is one document; any other text raises
\* JSONDecodeError, whose message is the diagnostic.
json_loads(text) ==
    IF Len(text) = 1 /\ text[1] \in DocIds
    THEN [ok |-> TRUE, value |-> DocValue(text[1]), error |-> ""]
    ELSE [ok |-> FALSE,
          value |-> DocValue("{}"),
          error |-> IF text # <<>> /\ text[1] \in DocIds
                    THEN "Extra data" ELSE "Expecting value"]

\* ---------------------------------------------------------- dispatch
\* An exception: its type and the fragments of its message.
Exception(type, msg) == [type |-> type, msg |-> msg]
NoException == Exception("", <<>>)

\* What a tool returns: the tool modules' functions build their results from
\* strings, numbers, lists and mappings, which json.dumps accepts; each
\* returns its data or, when the cluster API call failed, an "error" mapping.
ToolValues ==
    {[encodable |-> TRUE, text |-> "{pods: [...]}"],
     [encodable |-> TRUE, text |-> "{error: failed to list}"]}
NoValue == [encodable |-> TRUE, text |-> "None"]

\* What the body of a called operation does: return a value or raise.
Behaviours ==
    {[raises |-> FALSE, value |-> v] : v \in ToolValues}
        \cup {[raises |-> TRUE, value |-> NoValue]}

\* The outcome of a call: the value returned or the exception raised, and
\* the function whose body ran (NoFn when none did).
Returned(value, fn) ==
    [raised |-> FALSE, value |-> value, exc |-> NoException, ran |-> fn]
Raised(exc, fn) ==
    [raised |-> TRUE, value |-> NoValue, exc |-> exc, ran |-> fn]

ArgKeys(args) == {it[1] : it \in args.items}

\* fn(**payload): Python binds the keywords to the signature, then runs the
\* body, which behaves as b.
Call(fn, payload, b) ==
    LET sig == fn_signature(fn) IN
    IF ~payload.is_map
    THEN Raised(Exception("TypeError",
                          <<fn_name(fn), "argument after ** must be a mapping">>), NoFn)
    ELSE IF ~sig.var_kw /\ ~(ArgKeys(payload) \subseteq sig.named)
    THEN Raised(Exception("TypeError",
                          <<fn_name(fn), "got an unexpected keyword argument">>), NoFn)
    ELSE IF ~(sig.required \subseteq ArgKeys(payload))
    THEN Raised(Exception("TypeError",
                          <<fn_name(fn),
                            IF Cardinality(sig.required \ ArgKeys(payload)) = 1
                            THEN "missing 1 required positional argument"
                            ELSE "missing 2 required positional arguments">>
                              \o SelectSeq(sig.parameters,
                                           LAMBDA p : p \in sig.required \ ArgKeys(payload))),
                NoFn)
    ELSE IF b.raises
    THEN Raised(Exception("RuntimeError", <<"operation failed">>), fn)
    ELSE Returned(b.value, fn)

\* invoke_local returning an error mapping where the call raised.
invoke_local_ErrorResult(reg, tool_name, payload, b) ==
    IF ~HasKey(reg, tool_name)
    THEN Raised(Exception("KeyError", <<"tool not found">>), NoFn)
    ELSE LET r == Call(Lookup(reg, tool_name).fn, payload, b) IN
         IF r.raised
         THEN Returned([encodable |-> TRUE, text |-> "{error: ...}"], r.ran)
         ELSE r

\* invoke_local running the first registered function for an unknown name.
invoke_local_Fallback(reg, tool_name, payload, b) ==
    IF ~HasKey(reg, tool_name)
    THEN IF reg = <<>>
         THEN Raised(Exception("KeyError", <<"tool not found">>), NoFn)
         ELSE Call(reg[1].fn, payload, b)
    ELSE Call(Lookup(reg, tool_name).fn, payload, b)

\* invoke_local(tool_name, payload), and LocalMCP.invoke, which awaits it.
invoke_local(reg, tool_name, payload, b) ==
    IF ~HasKey(reg, tool_name)
    THEN Raised(Exception("KeyError", <<"tool not found">>), NoFn)
    ELSE Call(Lookup(reg, tool_name).fn, payload, b)

\* The HTTP route POST /invoke/{tool_name}: a status and what ran.
_invoke_tool(reg, tool_name, payload, b) ==
    IF ~HasKey(reg, tool_name)
    THEN [status |-> 404, detail |-> <<"tool not found">>, ran |-> NoFn]
    ELSE LET r == Call(Lookup(reg, tool_name).fn, payload, b) IN
         IF r.raised
         THEN [status |-> 500, detail |-> r.exc.msg, ran |-> r.ran]
         ELSE [status |-> 200, detail |-> <<r.value.text>>, ran |-> r.ran]

\* -------------------------------------------------------------- agent
\* What process_input does next: return a string, let an exception out, or
\* dispatch a tool call.
Return(str) ==
    [next |-> "return", str |-> str, exc |-> NoException,
     tool_name |-> NameNone, tool_args |-> ArgsEmpty]
Raise(exc) ==
    [next |-> "raise", str |-> [kind |-> "none"], exc |-> exc,
     tool_name |-> NameNone, tool_args |-> ArgsEmpty]
Dispatch(name, args) ==
    [next |-> "dispatch", str |-> [kind |-> "none"], exc |-> NoException,
     tool_name |-> name, tool_args |-> args]

\* _handle_tool_error naming pod_name in every hint.
_handle_tool_error_AlwaysPodName(tool_name, tool_args, error) ==
    IF \E i \in 1..Len(error.msg) : error.msg[i] = "missing 1 required positional argument"
    THEN [tool |-> tool_name,
          args |-> tool_args,
          error |-> <<"Parameter mismatch: ">> \o error.msg,
          hint |-> [requires |-> "pod_name", used |-> ArgKeys(tool_args),
                    instead_of |-> "pod"],
          recovery |-> "Retry with correct parameter names"]
    ELSE [tool |-> tool_name, args |-> tool_args, error |-> error.msg]

\* AIAgent._handle_tool_error: the record it appends to the context.
_handle_tool_error(tool_name, tool_args, error) ==
    IF \E i \in 1..Len(error.msg) : error.msg[i] = "missing 1 required positional argument"
    THEN [tool |-> tool_name,
          args |-> tool_args,
          error |-> <<"Parameter mismatch: ">> \o error.msg,
          hint |-> IF \E i \in 1..Len(error.msg) : error.msg[i] = "pod_name"
                   THEN [requires |-> "pod_name", used |-> ArgKeys(tool_args),
                         instead_of |-> "pod"]
                   ELSE [requires |-> "", used |-> {}, instead_of |-> ""],
          recovery |-> "Retry with correct parameter names"]
    ELSE [tool |-> tool_name, args |-> tool_args, error |-> error.msg]

\* The record process_input appends after a dispatch that returned.
ToolResult(tool_name, tool_args, result) ==
    [tool |-> tool_name, args |-> tool_args, result |-> result]

IsToolError(rec) == "error" \in DOMAIN rec
IsToolResult(rec) == "result" \in DOMAIN rec

\* Whether json.dumps accepts the conversation.
Encodable(context) ==
    \A i \in 1..Len(context) : IsToolResult(context[i]) => context[i].result.encodable

\* A line of rendered output is the sequence of its parts.
Bullets(texts) == [i \in 1..Len(texts) |-> <<"- ", texts[i]>>]

RECURSIVE Flatten(_)
Flatten(seqs) == IF seqs = <<>> THEN <<>> ELSE Head(seqs) \o Flatten(Tail(seqs))

\* AIAgent._format_data_response, for a mapping.
_format_data_response(resp) ==
    LET header == IF resp.summary # "" THEN << <<"## ", resp.summary>>, <<>> >> ELSE <<>>
        items == resp.items
        item_lines(item) ==
            IF item.is_map
            THEN [k \in 1..Len(item.pairs) |->
                     <<"**", item.pairs[k][1], "**: ", item.pairs[k][2]>>] \o << <<>> >>
            ELSE <<>>
        body ==
            IF items = <<>> THEN <<>>
            ELSE IF resp.format = "list"
            THEN Bullets([i \in 1..Len(items) |-> items[i].text])
            ELSE IF resp.format = "table"
            THEN Flatten([i \in 1..Len(items) |-> item_lines(items[i])])
            ELSE Bullets([i \in 1..Len(items) |-> items[i].text])
    IN  header \o body

\* yaml_content.replace("\\n", "\n")
UnescapeNewlines(text) ==
    [i \in 1..Len(text) |-> IF text[i] = "\\n" THEN "\n" ELSE text[i]]

\* FormatFinalResponse with the command block put before the YAML block.
FormatFinalResponse_CommandFirst(resp) ==
    LET get(v) == IF v = Absent THEN "N/A" ELSE v
        yaml == IF resp.yaml # <<>>
                THEN << <<"\n## Generated YAML">>,
                        <<"~~~yaml\n">> \o UnescapeNewlines(resp.yaml) \o <<"\n~~~">> >>
                ELSE <<>>
        kubectl == IF resp.kubectl # ""
                   THEN << <<"\n## Suggested Command">>,
                           <<"~~~bash\n", resp.kubectl, "\n~~~">> >>
                   ELSE <<>>
        checks == IF resp.post_checks # <<>>
                  THEN << <<"\n## Post-Checks">> >> \o Bullets(resp.post_checks)
                  ELSE <<>>
        pct == IF resp.confidence.kind = "absent" THEN 0 ELSE resp.confidence.pct
    IN  << <<"## Analysis">>, <<get(resp.analysis)>>,
           <<"\n## Recommendation">>, <<get(resp.recommendation)>> >>
        \o kubectl \o yaml \o checks
        \o << <<"\n*Confidence: ", ToString(pct), "%*">> >>

\* The final_response branch of process_input, for a mapping with a numeric
\* or absent confidence.
FormatFinalResponse(resp) ==
    LET get(v) == IF v = Absent THEN "N/A" ELSE v
        yaml == IF resp.yaml # <<>>
                THEN << <<"\n## Generated YAML">>,
                        <<"~~~yaml\n">> \o UnescapeNewlines(resp.yaml) \o <<"\n~~~">> >>
                ELSE <<>>
        kubectl == IF resp.kubectl # ""
                   THEN << <<"\n## Suggested Command">>,
                           <<"~~~bash\n", resp.kubectl, "\n~~~">> >>
                   ELSE <<>>
        checks == IF resp.post_checks # <<>>
                  THEN << <<"\n## Post-Checks">> >> \o Bullets(resp.post_checks)
                  ELSE <<>>
        pct == IF resp.confidence.kind = "absent" THEN 0 ELSE resp.confidence.pct
    IN  << <<"## Analysis">>, <<get(resp.analysis)>>,
           <<"\n## Recommendation">>, <<get(resp.recommendation)>> >>
        \o yaml \o kubectl \o checks
        \o << <<"\n*Confidence: ", ToString(pct), "%*">> >>

\* `key in parsed`: a key of a mapping, an element of a list.
In(key, parsed) == key \in parsed.keys

\* Lines 274-286: a tool_call is validated against self.tools and dispatched.
HandleToolCall(parsed, tools) ==
    LET tool_info == parsed.tool_call
        tool_name == tool_info.name
        tool_args == IF tool_info.has_args THEN tool_info.args ELSE ArgsEmpty
    IN
    IF parsed.kind # "object"
    THEN Raise(Exception("TypeError", <<"indices must be integers">>))
    ELSE IF ~tool_info.is_map
    THEN Raise(Exception("AttributeError", <<"object has no attribute 'get'">>))
    ELSE IF tool_name.kind = "list"
    THEN Raise(Exception("TypeError", <<"unhashable type">>))
    ELSE IF ~(tool_name.kind = "str" /\ HasKey(tools, tool_name.text))
    THEN Return([kind |-> "unknown_tool", requested |-> tool_name.text,
                 available |-> Keys(tools)])
    ELSE Dispatch(tool_name, tool_args)

\* Lines 312-313: a data_response is rendered and returned.
HandleDataResponse(parsed) ==
    IF parsed.kind # "object"
    THEN Raise(Exception("TypeError", <<"indices must be integers">>))
    ELSE IF ~parsed.data_response.is_map
    THEN Raise(Exception("AttributeError", <<"object has no attribute 'get'">>))
    ELSE Return([kind |-> "data_response",
                 lines |-> _format_data_response(parsed.data_response)])

\* Lines 317-348: a final_response is rendered and returned.
HandleFinalResponse(parsed) ==
    IF parsed.kind # "object"
    THEN Raise(Exception("TypeError", <<"indices must be integers">>))
    ELSE IF ~parsed.final_response.is_map
    THEN Raise(Exception("AttributeError", <<"object has no attribute 'get'">>))
    ELSE IF parsed.final_response.confidence.kind = "string"
    THEN Raise(Exception("ValueError", <<"Unknown format code '%'">>))
    ELSE Return([kind |-> "final_response",
                 lines |-> FormatFinalResponse(parsed.final_response)])

\* Classify with final_response looked for first.
Classify_FinalFirst(parsed, tools) ==
    IF parsed.kind = "scalar"
    THEN Raise(Exception("TypeError", <<"argument is not iterable">>))
    ELSE IF In("final_response", parsed) THEN HandleFinalResponse(parsed)
    ELSE IF In("tool_call", parsed) THEN HandleToolCall(parsed, tools)
    ELSE IF In("data_response", parsed) THEN HandleDataResponse(parsed)
    ELSE Return([kind |-> "unexpected_format", parsed |-> parsed])

\* Lines 272-352 of process_input: the decoded reply classified by the
\* top-level key it carries, tool_call first.
Classify(parsed, tools) ==
    IF parsed.kind = "scalar"
    THEN Raise(Exception("TypeError", <<"argument is not iterable">>))
    ELSE IF In("tool_call", parsed) THEN HandleToolCall(parsed, tools)
    ELSE IF In("data_response", parsed) THEN HandleDataResponse(parsed)
    ELSE IF In("final_response", parsed) THEN HandleFinalResponse(parsed)
    ELSE Return([kind |-> "unexpected_format", parsed |-> parsed])

\* HandleReply echoing the whole undecodable text.
HandleReply_WholeText(reply, tools) ==
    LET text == _clean_json_response(reply)
        decoded == json_loads(text)
    IN
    IF ~decoded.ok
    THEN Return([kind |-> "invalid_json", raw |-> text, error |-> decoded.error])
    ELSE Classify(decoded.value, tools)

\* Lines 251-270 of process_input: the reply cleaned and decoded; a text that
\* does not decode ends the call with its first 500 characters and the
\* decoder's message.
HandleReply(reply, tools) ==
    LET text == _clean_json_response(reply)
        decoded == json_loads(text)
    IN
    IF ~decoded.ok
    THEN Return([kind |-> "invalid_json", raw |-> SliceTo(text, 500),
                 error |-> decoded.error])
    ELSE Classify(decoded.value, tools)

\* LocalAdapter.chat asking for the pods on its second call as well.
LocalAdapterReply_ToolCallTwice(call_count) ==
    IF call_count <= 2
    THEN <<"{tool_call:get_pods(namespace)}">>
    ELSE <<"{final_response:local}">>

\* LocalAdapter.chat: the reply of its call_count-th call.
LocalAdapterReply(call_count) ==
    IF call_count = 1
    THEN <<"{tool_call:get_pods(namespace)}">>
    ELSE <<"{final_response:local}">>

\* -------------------------------------------------------------- state
VARIABLES
    registry,              \* _TOOL_REGISTRY, as [name, fn] entries in order
    imported,              \* how many @tool() decorators of ImportOrder ran
    constructed,           \* whether AIAgent(adapter) was constructed
    adapter,               \* the class of self.adapter
    call_count,            \* LocalAdapter.call_count
    tools,                 \* self.tools
    pc,                    \* where process_input is
    user_question,         \* process_input's arguments
    max_steps,
    step,                  \* the loop variable
    conversation_context,
    user_msg,
    tool_name,             \* the call handed to _invoke_tool_sync
    tool_args,
    returned,              \* the string process_input returned
    raised,                \* the exception that left process_input
    calls,                 \* adapter.chat calls of this invocation
    dispatches,            \* _invoke_tool_sync calls of this invocation
    sent,                  \* the (system, user) pair of the last chat call
    reply,                 \* what this step's chat call returned, once it has
    parsed,                \* this step's reply, decoded (NoParsed before it arrives)
    requested,             \* the names of the tools dispatched, in step order
    rpc,                   \* the last direct invoke and what it answered
    threads                \* the process_input frames of the threads running it at once

vars ==
    <<registry, imported, constructed, adapter, call_count, tools, pc,
      user_question, max_steps, step, conversation_context, user_msg,
      tool_name, tool_args, returned, raised, calls, dispatches, sent,
      reply, parsed, requested, rpc, threads>>

registry_vars == <<registry, imported>>
agent_vars == <<constructed, adapter, tools>>
locals ==
    <<user_question, max_steps, step, conversation_context, user_msg,
      tool_name, tool_args>>

Questions == {"list pods", "why is my nginx pod crashing?"}
Adapters == {"OpenRouterAdapter", "LocalAdapter"}

NoString == [kind |-> "none"]
NoReply == [received |-> FALSE, text |-> <<>>]
NoParsed == [ok |-> FALSE, value |-> DocValue("{}"), error |-> ""]
NoMessage == [system |-> <<>>, user |-> [user_question |-> "", conversation |-> <<>>,
                                          has_conversation |-> FALSE]]
NoRpc == [route |-> "", tool_name |-> "", answer |-> "", ran |-> NoFn]

\* The threads that call process_input at the same time, and the frame of one
\* that has not called it yet.
Threads == {1, 2}
NoFrame ==
    [pc |-> "idle", user_question |-> "", max_steps |-> 0, step |-> 0,
     conversation_context |-> <<>>, user_msg |-> NoMessage.user,
     tool_name |-> NameNone, tool_args |-> ArgsEmpty, returned |-> NoString,
     raised |-> NoException, sent |-> NoMessage, own |-> <<>>]

\* The texts a remote backend replies with: each document bare, some fenced,
\* and texts that are no JSON.
\* The ways a backend wraps a document: an opening marker (with or without
\* "json"), a closing marker, both or none, bare or with whitespace around
\* the whole and between the markers and the document.
Payloads ==
    {"{tool_call:get_pods(namespace)}", "{data_response:list}", "{final_response:local}"}
Wrappings(d) ==
    {pad[1] \o open \o pad[2] \o <<d>> \o pad[3] \o close \o pad[4] :
        open \in {<<>>, Fence, FenceJson}, close \in {<<>>, Fence},
        pad \in {<< <<>>, <<>>, <<>>, <<>> >>,
                 << <<" ">>, <<"\n">>, <<"\n">>, <<"\n", " ">> >>}}

NotJson == <<"n", "o", "t", " ", "j", "s", "o", "n">>
LongText == [i \in 1..MaxReplyLen |-> "x"]
Replies ==
    {<<d>> : d \in DocIds}
        \cup {FenceJson \o <<"\n", "{final_response:local}", "\n">> \o Fence,
              Fence \o <<"{tool_call:get_pods(namespace)}">>,
              <<" ", "{data_response:list}">> \o Fence}
        \cup {<<>>, NotJson, LongText, <<"{}", "x">>, Fence}
        \cup UNION {Wrappings(d) : d \in Payloads}

\* The names a direct caller of the dispatcher asks for.
InvokeNames == {fn_name(f) : f \in Fns} \cup {"nonexistent_tool"}

Init ==
    /\ registry = <<>>
    /\ imported = 0
    /\ constructed = FALSE
    /\ adapter = "LocalAdapter"
    /\ call_count = 0
    /\ tools = <<>>
    /\ pc = "idle"
    /\ user_question = ""
    /\ max_steps = 0
    /\ step = 0
    /\ conversation_context = <<>>
    /\ user_msg = NoMessage.user
    /\ tool_name = NameNone
    /\ tool_args = ArgsEmpty
    /\ returned = NoString
    /\ raised = NoException
    /\ calls = 0
    /\ dispatches = 0
    /\ sent = NoMessage
    /\ reply = NoReply
    /\ parsed = NoParsed
    /\ requested = <<>>
    /\ rpc = NoRpc
    /\ threads = [t \in Threads |-> NoFrame]

\* The next @tool() decorator of the tool modules registers its function.
Register ==
    /\ imported < Len(ImportOrder)
    /\ registry' = tool(registry, NoName, ImportOrder[imported + 1])
    /\ imported' = imported + 1
    /\ UNCHANGED <<threads, agent_vars, call_count, pc, locals, returned, raised, calls,
                   dispatches, sent, reply, parsed, requested, rpc>>

\* AIAgent.__init__ (and LocalAdapter.__init__ before it)
Construct(a) ==
    /\ ~constructed
    /\ constructed' = TRUE
    /\ adapter' = a
    /\ call_count' = 0
    /\ tools' = list_tools(registry)
    /\ UNCHANGED <<threads, registry_vars, pc, locals, returned, raised, calls, dispatches,
                   sent, reply, parsed, requested, rpc>>

\* A direct call of invoke_local (LocalMCP.invoke) outside any conversation.
InvokeLocal(name, payload, b) ==
    /\ pc = "idle"
    /\ LET r == invoke_local(registry, name, payload, b) IN
       rpc' = [route |-> "invoke_local", tool_name |-> name,
               answer |-> IF r.raised THEN r.exc.type ELSE "returned",
               ran |-> r.ran]
    /\ UNCHANGED <<threads, registry_vars, agent_vars, call_count, pc, locals, returned,
                   raised, calls, dispatches, sent, reply, parsed, requested>>

\* A request to the HTTP route POST /invoke/{tool_name}; the handler runs only
\* for a body that is a JSON object (payload: Dict[str, Any]).
HttpInvoke(name, payload, b) ==
    /\ pc = "idle"
    /\ LET r == _invoke_tool(registry, name, payload, b) IN
       rpc' = [route |-> "POST /invoke", tool_name |-> name,
               answer |-> ToString(r.status), ran |-> r.ran]
    /\ UNCHANGED <<threads, registry_vars, agent_vars, call_count, pc, locals, returned,
                   raised, calls, dispatches, sent, reply, parsed, requested>>

\* process_input(user_question, max_steps) is called: lines 232-233.
ProcessInput(q, n) ==
    /\ constructed
    /\ pc \in {"idle", "returned", "raised"}
    /\ adapter = "LocalAdapter" => call_count + n <= MaxCallCount
    /\ pc' = "loop"
    /\ user_question' = q
    /\ max_steps' = n
    /\ step' = 0
    /\ conversation_context' = <<>>
    /\ user_msg' = [user_question |-> q, conversation |-> <<>>,
                    has_conversation |-> FALSE]
    /\ tool_name' = NameNone
    /\ tool_args' = ArgsEmpty
    /\ returned' = NoString
    /\ raised' = NoException
    /\ calls' = 0
    /\ dispatches' = 0
    /\ sent' = NoMessage
    /\ reply' = NoReply
    /\ parsed' = NoParsed
    /\ requested' = <<>>
    /\ rpc' = NoRpc
    /\ UNCHANGED <<threads, registry_vars, agent_vars, call_count>>

\* CallBackend with the loop running one step too many.
CallBackend_OffByOne ==
    /\ pc = "loop"
    /\ step <= max_steps
    /\ pc' = "chat"
    /\ calls' = calls + 1
    /\ sent' = [system |-> Keys(tools), user |-> user_msg]
    /\ reply' = NoReply
    /\ parsed' = NoParsed
    /\ UNCHANGED <<threads, registry_vars, agent_vars, call_count, locals, returned, raised,
                   dispatches, requested, rpc>>

\* CallBackend not waiting for the dispatch in progress.
CallBackend_WhileDispatching ==
    /\ pc \in {"loop", "dispatch"}
    /\ step < max_steps
    /\ pc' = "chat"
    /\ calls' = calls + 1
    /\ sent' = [system |-> Keys(tools), user |-> user_msg]
    /\ reply' = NoReply
    /\ parsed' = NoParsed
    /\ UNCHANGED <<threads, registry_vars, agent_vars, call_count, locals, returned, raised,
                   dispatches, requested, rpc>>

\* `for step in range(max_steps)` has a next step: adapter.chat is called
\* with the system prompt (the tool names) and user_msg.
CallBackend ==
    /\ pc = "loop"
    /\ step < max_steps
    /\ pc' = "chat"
    /\ calls' = calls + 1
    /\ sent' = [system |-> Keys(tools), user |-> user_msg]
    /\ reply' = NoReply
    /\ parsed' = NoParsed
    /\ UNCHANGED <<threads, registry_vars, agent_vars, call_count, locals, returned, raised,
                   dispatches, requested, rpc>>

\* BudgetExhausted naming the default budget instead of the one it was given.
BudgetExhausted_DefaultBudget ==
    /\ pc = "loop"
    /\ step >= max_steps
    /\ pc' = "returned"
    /\ returned' = [kind |-> "max_steps", max_steps |-> MAX_CONVERSATION_STEPS]
    /\ UNCHANGED <<threads, registry_vars, agent_vars, call_count, locals, raised, calls,
                   dispatches, sent, reply, parsed, requested, rpc>>

\* BudgetExhausted waiting for one step more than the range has.
BudgetExhausted_OffByOne ==
    /\ pc = "loop"
    /\ step > max_steps
    /\ pc' = "returned"
    /\ returned' = [kind |-> "max_steps", max_steps |-> max_steps]
    /\ UNCHANGED <<threads, registry_vars, agent_vars, call_count, locals, raised, calls,
                   dispatches, sent, reply, parsed, requested, rpc>>

\* The range is exhausted: line 354.
BudgetExhausted ==
    /\ pc = "loop"
    /\ step >= max_steps
    /\ pc' = "returned"
    /\ returned' = [kind |-> "max_steps", max_steps |-> max_steps]
    /\ UNCHANGED <<threads, registry_vars, agent_vars, call_count, locals, raised, calls,
                   dispatches, sent, reply, parsed, requested, rpc>>

\* ChatRaises going round the loop again instead of returning.
ChatRaises_Retry ==
    /\ pc = "chat"
    /\ adapter = "OpenRouterAdapter"
    /\ pc' = "loop"
    /\ UNCHANGED <<threads, registry_vars, agent_vars, call_count, locals, returned, raised,
                   calls, dispatches, sent, reply, parsed, requested, rpc>>

\* adapter.chat raises (a remote adapter wraps every failure in RuntimeError;
\* LocalAdapter never raises): lines 243-245.
ChatRaises ==
    /\ pc = "chat"
    /\ adapter = "OpenRouterAdapter"
    /\ pc' = "returned"
    /\ returned' = [kind |-> "adapter_error",
                    error |-> Exception("RuntimeError", <<"OpenRouter API error">>)]
    /\ UNCHANGED <<threads, registry_vars, agent_vars, call_count, locals, raised, calls,
                   dispatches, sent, reply, parsed, requested, rpc>>

\* Handle validating the tool name against the registry as it is now.
Handle_LiveRegistry(text) ==
    LET h == HandleReply(text, list_tools(registry)) IN
    /\ reply' = [received |-> TRUE, text |-> text]
    /\ parsed' = json_loads(_clean_json_response(text))
    /\ pc' = CASE h.next = "return" -> "returned"
               [] h.next = "raise" -> "raised"
               [] OTHER -> "dispatch"
    /\ returned' = h.str
    /\ raised' = h.exc
    /\ tool_name' = h.tool_name
    /\ tool_args' = h.tool_args
    /\ dispatches' = IF h.next = "dispatch" THEN dispatches + 1 ELSE dispatches
    /\ requested' = IF h.next = "dispatch" THEN Append(requested, h.tool_name)
                    ELSE requested
    /\ UNCHANGED <<threads, registry_vars, agent_vars, user_question, max_steps, step,
                   conversation_context, user_msg, calls, sent, rpc>>

\* What follows a reply: lines 251-352 up to the call of _invoke_tool_sync.
Handle(text) ==
    LET h == HandleReply(text, tools) IN
    /\ reply' = [received |-> TRUE, text |-> text]
    /\ parsed' = json_loads(_clean_json_response(text))
    /\ pc' = CASE h.next = "return" -> "returned"
               [] h.next = "raise" -> "raised"
               [] OTHER -> "dispatch"
    /\ returned' = h.str
    /\ raised' = h.exc
    /\ tool_name' = h.tool_name
    /\ tool_args' = h.tool_args
    /\ dispatches' = IF h.next = "dispatch" THEN dispatches + 1 ELSE dispatches
    /\ requested' = IF h.next = "dispatch" THEN Append(requested, h.tool_name)
                    ELSE requested
    /\ UNCHANGED <<threads, registry_vars, agent_vars, user_question, max_steps, step,
                   conversation_context, user_msg, calls, sent, rpc>>

\* A remote adapter's chat returns some text.
ChatReturns(text) ==
    /\ pc = "chat"
    /\ adapter = "OpenRouterAdapter"
    /\ Handle(text)
    /\ UNCHANGED call_count

\* LocalAdapter.chat counts the call and returns its scripted text.
LocalChatReturns ==
    /\ pc = "chat"
    /\ adapter = "LocalAdapter"
    /\ call_count' = call_count + 1
    /\ Handle(LocalAdapterReply(call_count + 1))

\* DispatchCompletes with user_msg rebuilt only after a dispatch that returned.
DispatchCompletes_StaleMessage(b) ==
    /\ pc = "dispatch"
    /\ LET r == invoke_local(registry, tool_name.text, tool_args, b)
           record == IF r.raised
                     THEN _handle_tool_error(tool_name, tool_args, r.exc)
                     ELSE ToolResult(tool_name, tool_args, r.value)
           context == Append(conversation_context, record)
       IN  /\ conversation_context' = context
           /\ user_msg' = IF r.raised THEN user_msg
                          ELSE [user_question |-> user_question,
                                conversation |-> context,
                                has_conversation |-> TRUE]
           /\ step' = step + 1
           /\ pc' = "loop"
           /\ raised' = raised
    /\ UNCHANGED <<threads, registry_vars, agent_vars, call_count, user_question, max_steps,
                   tool_name, tool_args, returned, calls, dispatches, sent, reply, parsed,
                   requested, rpc>>

\* DispatchCompletes keeping the latest record only.
DispatchCompletes_LatestOnly(b) ==
    /\ pc = "dispatch"
    /\ LET r == invoke_local(registry, tool_name.text, tool_args, b)
           record == IF r.raised
                     THEN _handle_tool_error(tool_name, tool_args, r.exc)
                     ELSE ToolResult(tool_name, tool_args, r.value)
           context == <<record>>
       IN  /\ conversation_context' = context
           /\ user_msg' = [user_question |-> user_question,
                           conversation |-> context,
                           has_conversation |-> TRUE]
           /\ step' = step + 1
           /\ pc' = "loop"
           /\ raised' = raised
    /\ UNCHANGED <<threads, registry_vars, agent_vars, call_count, user_question, max_steps,
                   tool_name, tool_args, returned, calls, dispatches, sent, reply, parsed,
                   requested, rpc>>

\* DispatchCompletes invoking the operation again when it raised.
DispatchCompletes_RetryOnFailure(b) ==
    /\ pc = "dispatch"
    /\ LET r == invoke_local(registry, tool_name.text, tool_args, b)
           record == IF r.raised
                     THEN _handle_tool_error(tool_name, tool_args, r.exc)
                     ELSE ToolResult(tool_name, tool_args, r.value)
           context == Append(conversation_context, record)
       IN  IF r.raised /\ dispatches < max_steps
           THEN /\ dispatches' = dispatches + 1
                /\ UNCHANGED <<conversation_context, user_msg, step, pc, raised>>
           ELSE /\ conversation_context' = context
                /\ user_msg' = [user_question |-> user_question,
                                conversation |-> context,
                                has_conversation |-> TRUE]
                /\ step' = step + 1
                /\ pc' = "loop"
                /\ UNCHANGED <<dispatches, raised>>
    /\ UNCHANGED <<threads, registry_vars, agent_vars, call_count, user_question, max_steps,
                   tool_name, tool_args, returned, calls, sent, reply, parsed,
                   requested, rpc>>

\* DispatchCompletes taking a returned mapping with an "error" key for a fault.
DispatchCompletes_ErrorMappingIsFault(b) ==
    /\ pc = "dispatch"
    /\ LET r == invoke_local(registry, tool_name.text, tool_args, b)
           record == IF r.raised
                     THEN _handle_tool_error(tool_name, tool_args, r.exc)
                     ELSE IF r.value.text = "{error: failed to list}"
                     THEN [tool |-> tool_name, args |-> tool_args,
                           error |-> <<"failed to list">>]
                     ELSE ToolResult(tool_name, tool_args, r.value)
           context == Append(conversation_context, record)
       IN  /\ conversation_context' = context
           /\ user_msg' = [user_question |-> user_question,
                           conversation |-> context,
                           has_conversation |-> TRUE]
           /\ step' = step + 1
           /\ pc' = "loop"
           /\ raised' = raised
    /\ UNCHANGED <<threads, registry_vars, agent_vars, call_count, user_question, max_steps,
                   tool_name, tool_args, returned, calls, dispatches, sent, reply, parsed,
                   requested, rpc>>

\* DispatchCompletes with a dispatch that raised leaving no record.
DispatchCompletes_ErrorNotRecorded(b) ==
    /\ pc = "dispatch"
    /\ LET r == invoke_local(registry, tool_name.text, tool_args, b)
           context == IF r.raised
                      THEN conversation_context
                      ELSE Append(conversation_context,
                                  ToolResult(tool_name, tool_args, r.value))
       IN  /\ conversation_context' = context
           /\ user_msg' = [user_question |-> user_question,
                           conversation |-> context,
                           has_conversation |-> TRUE]
           /\ step' = step + 1
           /\ pc' = "loop"
           /\ raised' = raised
    /\ UNCHANGED <<threads, registry_vars, agent_vars, call_count, user_question, max_steps,
                   tool_name, tool_args, returned, calls, dispatches, sent, reply, parsed,
                   requested, rpc>>

\* DispatchCompletes rebuilding user_msg from the conversation alone.
DispatchCompletes_QuestionDropped(b) ==
    /\ pc = "dispatch"
    /\ LET r == invoke_local(registry, tool_name.text, tool_args, b)
           record == IF r.raised
                     THEN _handle_tool_error(tool_name, tool_args, r.exc)
                     ELSE ToolResult(tool_name, tool_args, r.value)
           context == Append(conversation_context, record)
       IN  /\ conversation_context' = context
           /\ user_msg' = [user_question |-> "",
                           conversation |-> context,
                           has_conversation |-> TRUE]
           /\ step' = step + 1
           /\ pc' = "loop"
           /\ raised' = raised
    /\ UNCHANGED <<threads, registry_vars, agent_vars, call_count, user_question, max_steps,
                   tool_name, tool_args, returned, calls, dispatches, sent, reply, parsed,
                   requested, rpc>>

\* _invoke_tool_sync completes, the operation's body behaving as b: lines
\* 285-308.
DispatchCompletes(b) ==
    /\ pc = "dispatch"
    /\ LET r == invoke_local(registry, tool_name.text, tool_args, b)
           record == IF r.raised
                     THEN _handle_tool_error(tool_name, tool_args, r.exc)
                     ELSE ToolResult(tool_name, tool_args, r.value)
           context == Append(conversation_context, record)
       IN  /\ conversation_context' = context
           /\ IF Encodable(context)
              THEN /\ user_msg' = [user_question |-> user_question,
                                   conversation |-> context,
                                   has_conversation |-> TRUE]
                   /\ step' = step + 1
                   /\ pc' = "loop"
                   /\ raised' = raised
              ELSE /\ pc' = "raised"
                   /\ raised' = Exception("TypeError", <<"is not JSON serializable">>)
                   /\ UNCHANGED <<user_msg, step>>
    /\ UNCHANGED <<threads, registry_vars, agent_vars, call_count, user_question, max_steps,
                   tool_name, tool_args, returned, calls, dispatches, sent, reply, parsed,
                   requested, rpc>>

Next ==
    \/ Register
    \/ \E a \in Adapters : Construct(a)
    \/ \E name \in InvokeNames, payload \in {ArgsEmpty, ArgsList}, b \in Behaviours :
          InvokeLocal(name, payload, b)
    \/ \E name \in InvokeNames, payload \in {ArgsEmpty, ArgsPod}, b \in Behaviours :
          HttpInvoke(name, payload, b)
    \/ \E q \in Questions, n \in 0..MaxBudget : ProcessInput(q, n)
    \/ CallBackend
    \/ BudgetExhausted
    \/ ChatRaises
    \/ \E text \in Replies : ChatReturns(text)
    \/ LocalChatReturns
    \/ \E b \in Behaviours : DispatchCompletes(b)

Spec == Init /\ [][Next]_vars

\* The chat call outstanding returns or raises.
ChatCompletes ==
    \/ ChatRaises
    \/ \E text \in Replies : ChatReturns(text)
    \/ LocalChatReturns

\* The registry once the first n decorators of the tool modules have run.
RECURSIVE RegistryAfter(_)
RegistryAfter(n) ==
    IF n = 0 THEN <<>> ELSE tool(RegistryAfter(n - 1), NoName, ImportOrder[n])

\* The program as cli/chat.py runs it: the mcp package is imported, then the
\* agent is constructed with the adapter chosen.
Started ==
    /\ registry = RegistryAfter(Len(ImportOrder))
    /\ imported = Len(ImportOrder)
    /\ constructed = TRUE
    /\ adapter \in Adapters
    /\ call_count = 0
    /\ tools = list_tools(registry)
    /\ pc = "idle"
    /\ user_question = ""
    /\ max_steps = 0
    /\ step = 0
    /\ conversation_context = <<>>
    /\ user_msg = NoMessage.user
    /\ tool_name = NameNone
    /\ tool_args = ArgsEmpty
    /\ returned = NoString
    /\ raised = NoException
    /\ calls = 0
    /\ dispatches = 0
    /\ sent = NoMessage
    /\ reply = NoReply
    /\ parsed = NoParsed
    /\ requested = <<>>
    /\ rpc = NoRpc
    /\ threads = [t \in Threads |-> NoFrame]

\* The steps of the conversations of a started program.
Converse ==
    \/ \E q \in Questions, n \in 0..MaxBudget : ProcessInput(q, n)
    \/ CallBackend
    \/ BudgetExhausted
    \/ ChatRaises
    \/ \E text \in Replies : ChatReturns(text)
    \/ LocalChatReturns
    \/ \E b \in Behaviours : DispatchCompletes(b)

\* The started program where the loop runs on (it is never descheduled for
\* ever) and every chat call and every dispatch comes back.
FairSpec ==
    /\ Started
    /\ [][Converse]_vars
    /\ WF_vars(CallBackend)
    /\ WF_vars(BudgetExhausted)
    /\ WF_vars(ChatCompletes)
    /\ WF_vars(\E b \in Behaviours : DispatchCompletes(b))

\* ---------------------------------------------- concurrent invocations
\* process_input keeps its state in local variables, so each thread that
\* runs it has a frame of its own; the threads share the agent (self.tools,
\* self.adapter and its call_count) and the registry of the module.  Two
\* agents built from the same registry have equal snapshots, so the frames
\* of two agents differ from these only in the adapter they call.

\* What thread t asks, and what the remote backend answers it.
ThreadQuestion(t) == IF t = 1 THEN "list pods" ELSE "why is my nginx pod crashing?"
ThreadReplies(t) ==
    IF t = 1
    THEN {<<"{tool_call:get_pods(namespace)}">>, <<"{final_response:local}">>}
    ELSE {<<"{tool_call:get_pod_yaml}">>, NotJson}

\* The chat calls the running threads other than t may still make.
CallsLeft(t) ==
    LET u == CHOOSE u \in Threads : u # t IN
    IF threads[u].pc \in {"loop", "chat", "dispatch"}
    THEN threads[u].max_steps - threads[u].step
    ELSE 0

\* Lines 230-243: thread t enters process_input.
ThreadProcessInput(t, n) ==
    /\ threads[t].pc = "idle"
    /\ adapter = "LocalAdapter" => call_count + n + CallsLeft(t) <= MaxCallCount
    /\ threads' = [threads EXCEPT ![t] =
           [NoFrame EXCEPT !.pc = "loop",
                           !.user_question = ThreadQuestion(t),
                           !.max_steps = n,
                           !.user_msg = [user_question |-> ThreadQuestion(t),
                                         conversation |-> <<>>,
                                         has_conversation |-> FALSE]]]
    /\ UNCHANGED <<registry_vars, agent_vars, call_count, locals, pc, returned, raised,
                   calls, dispatches, sent, reply, parsed, requested, rpc>>

\* Lines 242-249: thread t starts the chat call of its next step.
ThreadCallBackend(t) ==
    /\ threads[t].pc = "loop"
    /\ threads[t].step < threads[t].max_steps
    /\ threads' = [threads EXCEPT ![t].pc = "chat",
                                  ![t].sent = [system |-> Keys(tools),
                                               user |-> threads[t].user_msg]]
    /\ UNCHANGED <<registry_vars, agent_vars, call_count, locals, pc, returned, raised,
                   calls, dispatches, sent, reply, parsed, requested, rpc>>

\* Line 354: thread t has used its budget.
ThreadBudgetExhausted(t) ==
    /\ threads[t].pc = "loop"
    /\ threads[t].step >= threads[t].max_steps
    /\ threads' = [threads EXCEPT ![t].pc = "returned",
                                  ![t].returned = [kind |-> "max_steps",
                                                   max_steps |-> threads[t].max_steps]]
    /\ UNCHANGED <<registry_vars, agent_vars, call_count, locals, pc, returned, raised,
                   calls, dispatches, sent, reply, parsed, requested, rpc>>

\* Lines 243-245 in thread t: the remote adapter's chat raises.
ThreadChatRaises(t) ==
    /\ threads[t].pc = "chat"
    /\ adapter = "OpenRouterAdapter"
    /\ threads' = [threads EXCEPT
           ![t].pc = "returned",
           ![t].returned = [kind |-> "adapter_error",
                            error |-> Exception("RuntimeError", <<"OpenRouter API error">>)]]
    /\ UNCHANGED <<registry_vars, agent_vars, call_count, locals, pc, returned, raised,
                   calls, dispatches, sent, reply, parsed, requested, rpc>>

\* Lines 251-286 in thread t: the reply handled as HandleReply does.
ThreadHandle(t, text) ==
    LET h == HandleReply(text, tools) IN
    threads' = [threads EXCEPT
        ![t].pc = CASE h.next = "return" -> "returned"
                    [] h.next = "raise" -> "raised"
                    [] OTHER -> "dispatch",
        ![t].returned = h.str,
        ![t].raised = h.exc,
        ![t].tool_name = h.tool_name,
        ![t].tool_args = h.tool_args]

\* The remote adapter's chat returns to thread t.
ThreadChatReturns(t, text) ==
    /\ threads[t].pc = "chat"
    /\ adapter = "OpenRouterAdapter"
    /\ ThreadHandle(t, text)
    /\ UNCHANGED <<registry_vars, agent_vars, call_count, locals, pc, returned, raised,
                   calls, dispatches, sent, reply, parsed, requested, rpc>>

\* LocalAdapter.chat returns to thread t: the adapter is the agent's, so the
\* call is counted on the counter all the threads share.
ThreadLocalChatReturns(t) ==
    /\ threads[t].pc = "chat"
    /\ adapter = "LocalAdapter"
    /\ call_count' = call_count + 1
    /\ ThreadHandle(t, LocalAdapterReply(call_count + 1))
    /\ UNCHANGED <<registry_vars, agent_vars, locals, pc, returned, raised,
                   calls, dispatches, sent, reply, parsed, requested, rpc>>

\* ThreadDispatchCompletes with the context kept on the agent, where every
\* thread running on it appends to the same list.
ThreadDispatchCompletes_SharedContext(t, b) ==
    /\ threads[t].pc = "dispatch"
    /\ LET f == threads[t]
           r == invoke_local(registry, f.tool_name.text, f.tool_args, b)
           record == IF r.raised
                     THEN _handle_tool_error(f.tool_name, f.tool_args, r.exc)
                     ELSE ToolResult(f.tool_name, f.tool_args, r.value)
           shared(u) == Append(threads[u].conversation_context, record)
       IN  threads' = [u \in Threads |->
               IF u = t
               THEN [f EXCEPT !.conversation_context = shared(t),
                              !.own = Append(f.own, record),
                              !.user_msg = [user_question |-> f.user_question,
                                            conversation |-> shared(t),
                                            has_conversation |-> TRUE],
                              !.step = f.step + 1,
                              !.pc = "loop"]
               ELSE [threads[u] EXCEPT !.conversation_context = shared(u)]]
    /\ UNCHANGED <<registry_vars, agent_vars, call_count, locals, pc, returned, raised,
                   calls, dispatches, sent, reply, parsed, requested, rpc>>

\* Lines 285-308 in thread t: the dispatch comes back, its record is appended
\* to the thread's own conversation_context and user_msg is rebuilt from it.
\* own is the list of the records this thread's dispatches produced.
ThreadDispatchCompletes(t, b) ==
    /\ threads[t].pc = "dispatch"
    /\ LET f == threads[t]
           r == invoke_local(registry, f.tool_name.text, f.tool_args, b)
           record == IF r.raised
                     THEN _handle_tool_error(f.tool_name, f.tool_args, r.exc)
                     ELSE ToolResult(f.tool_name, f.tool_args, r.value)
           context == Append(f.conversation_context, record)
       IN  threads' = [threads EXCEPT ![t] =
               IF Encodable(context)
               THEN [f EXCEPT !.conversation_context = context,
                              !.own = Append(f.own, record),
                              !.user_msg = [user_question |-> f.user_question,
                                            conversation |-> context,
                                            has_conversation |-> TRUE],
                              !.step = f.step + 1,
                              !.pc = "loop"]
               ELSE [f EXCEPT !.conversation_context = context,
                              !.own = Append(f.own, record),
                              !.pc = "raised",
                              !.raised = Exception("TypeError",
                                                   <<"is not JSON serializable">>)]]
    /\ UNCHANGED <<registry_vars, agent_vars, call_count, locals, pc, returned, raised,
                   calls, dispatches, sent, reply, parsed, requested, rpc>>

\* The steps of the threads, interleaved in any order.
Interleave ==
    \/ \E t \in Threads, n \in 1..MaxBudget : ThreadProcessInput(t, n)
    \/ \E t \in Threads : ThreadCallBackend(t)
    \/ \E t \in Threads : ThreadBudgetExhausted(t)
    \/ \E t \in Threads : ThreadChatRaises(t)
    \/ \E t \in Threads : \E text \in ThreadReplies(t) : ThreadChatReturns(t, text)
    \/ \E t \in Threads : ThreadLocalChatReturns(t)
    \/ \E t \in Threads, b \in Behaviours : ThreadDispatchCompletes(t, b)

\* The started program with its threads calling process_input at once.
ConcurrentSpec == Started /\ [][Interleave]_vars

\* ------------------------------------------------------------- claims
\* The invocation is over: process_input returned or let an exception out.
Ended == pc \in {"returned", "raised"}

\* This step's reply was decoded and classified, and nothing has run since.
Answered == pc \in {"dispatch", "returned", "raised"} /\ parsed.ok /\ step < calls

\* Every chat call of the invocation so far was answered with a tool_call
\* naming a tool of the snapshot.
OnlyToolCalls == Len(requested) = calls

\* C1: whatever the backend and the tools do, one process_input invocation
\* with budget N makes at most N chat calls and at most N dispatches.
C1_WithinBudget == calls <= max_steps /\ dispatches <= max_steps

C1_Witness ==
    /\ pc = "returned"
    /\ max_steps = MaxBudget
    /\ calls = max_steps
    /\ dispatches = max_steps

\* C2: when every chat call is answered with a tool_call naming a tool of the
\* snapshot, whether the dispatches return or raise, the invocation with
\* budget N ends by returning the step-budget message naming N after exactly
\* N chat calls and exactly N dispatches.
C2_ToolCallsExhaustBudget ==
    (Ended /\ OnlyToolCalls) =>
        /\ pc = "returned"
        /\ returned.kind = "max_steps"
        /\ returned.max_steps = max_steps
        /\ calls = max_steps
        /\ dispatches = max_steps

C2_Witness ==
    /\ Ended
    /\ OnlyToolCalls
    /\ max_steps = MaxBudget
    /\ returned.kind = "max_steps"
    /\ \E i, j \in 1..Len(conversation_context) :
          /\ IsToolError(conversation_context[i])
          /\ IsToolResult(conversation_context[j])

\* C3 (as claimed): no exception leaves process_input; every invocation ends
\* by returning a string.
C3_NoExceptionEscapes == pc # "raised"

\* A reply that is a final_response and nothing else, with the fields of the
\* protocol (a mapping whose confidence, when present, is a number).
IsFinalResponse(v) ==
    /\ v.kind = "object"
    /\ v.keys = {"final_response"}
    /\ v.final_response.is_map
    /\ v.final_response.confidence.kind # "string"

\* C4: a dispatch that fails at step 1 does not end the loop: the message
\* sent at step 2 carries a conversation of exactly one record, a ToolError
\* naming the tool requested at step 1, and when the reply of step 2 is a
\* final_response the invocation returns that final_response rendered.
C4_ToolErrorThenFinal ==
    (Len(conversation_context) >= 1 /\ IsToolError(conversation_context[1])) =>
        /\ calls = 1 => (pc = "loop" \/ (pc = "returned" /\ returned.kind = "max_steps"))
        /\ calls = 2 =>
              /\ sent.user.user_question = user_question
              /\ sent.user.has_conversation
              /\ Len(sent.user.conversation) = 1
              /\ IsToolError(sent.user.conversation[1])
              /\ sent.user.conversation[1].tool = requested[1]
        /\ (calls = 2 /\ parsed.ok /\ IsFinalResponse(parsed.value) /\ pc # "chat") =>
              /\ pc = "returned"
              /\ returned = [kind |-> "final_response",
                             lines |-> FormatFinalResponse(parsed.value.final_response)]

C4_Witness ==
    /\ calls = 2
    /\ pc = "returned"
    /\ Len(conversation_context) = 1
    /\ IsToolError(conversation_context[1])
    /\ parsed.ok
    /\ IsFinalResponse(parsed.value)
    /\ returned.kind = "final_response"

\* What the handling of this step's reply came to, as HandleReply gives it.
Outcome ==
    [next |-> CASE pc = "returned" -> "return"
                [] pc = "raised" -> "raise"
                [] OTHER -> "dispatch",
     str |-> returned, exc |-> raised,
     tool_name |-> tool_name, tool_args |-> tool_args]

\* The key a mapping is classified by: tool_call before data_response before
\* final_response.
PriorityKey(v) ==
    IF "tool_call" \in v.keys THEN "tool_call"
    ELSE IF "data_response" \in v.keys THEN "data_response"
    ELSE "final_response"

\* C5 (as claimed): a decoded mapping is accepted only when exactly one of
\* tool_call, data_response and final_response is among its keys; with none
\* or with several the invocation returns the unexpected-format message
\* echoing the decoded structure, and nothing is dispatched.
C5_ExactlyOneKey ==
    (Answered /\ parsed.value.kind = "object" /\ Cardinality(parsed.value.keys) # 1) =>
        /\ pc = "returned"
        /\ returned.kind = "unexpected_format"
        /\ returned.parsed = parsed.value
        /\ dispatches = step

\* C5 (amended): a decoded mapping with none of the three keys ends the
\* invocation with the unexpected-format message echoing the decoded
\* structure and nothing dispatched; a mapping with several of them is not
\* rejected: it is handled as if only the first of tool_call, data_response,
\* final_response that it carries were present.
C5_KeyPriority ==
    (Answered /\ parsed.value.kind = "object") =>
        /\ parsed.value.keys = {} =>
              /\ pc = "returned"
              /\ returned = [kind |-> "unexpected_format", parsed |-> parsed.value]
              /\ dispatches = step
              /\ calls = step + 1
        /\ Cardinality(parsed.value.keys) >= 2 =>
              Outcome = Classify([parsed.value EXCEPT !.keys = {PriorityKey(parsed.value)}],
                                 tools)

C5_Witness ==
    /\ Answered
    /\ parsed.value.kind = "object"
    /\ parsed.value.keys = {"tool_call", "final_response"}
    /\ pc = "dispatch"
    /\ dispatches = step + 1

\* The tool_call of a decoded mapping names a tool of the snapshot.
NamesSnapshotTool(tc) ==
    tc.is_map /\ tc.name.kind = "str" /\ HasKey(tools, tc.name.text)

\* C6 (as claimed): a tool_call whose name is not a name of the snapshot,
\* a missing name included, ends the invocation with the message that holds
\* the requested name and every name of the snapshot; nothing is dispatched
\* and no further chat call is made.
C6_UnknownToolTerminal ==
    (/\ Answered
     /\ parsed.value.kind = "object"
     /\ "tool_call" \in parsed.value.keys
     /\ parsed.value.tool_call.is_map
     /\ ~NamesSnapshotTool(parsed.value.tool_call)) =>
        /\ pc = "returned"
        /\ returned.kind = "unknown_tool"
        /\ returned.requested = parsed.value.tool_call.name.text
        /\ returned.available = Keys(tools)
        /\ dispatches = step
        /\ calls = step + 1

\* This step's chat call returned a text that, cleaned, is not one JSON document.
Undecodable ==
    /\ reply.received
    /\ step < calls
    /\ ~json_loads(_clean_json_response(reply.text)).ok

\* C7: a reply that, cleaned, does not decode as JSON (the empty text
\* included) ends the invocation with the message that holds the first 500
\* characters of the cleaned text and the decoder's diagnostic; nothing is
\* dispatched at that step and no further chat call is made.
C7_UndecodableTerminal ==
    Undecodable =>
        LET text == _clean_json_response(reply.text) IN
        /\ pc = "returned"
        /\ returned.kind = "invalid_json"
        /\ Len(returned.raw) = (IF Len(text) < 500 THEN Len(text) ELSE 500)
        /\ \A i \in 1..Len(returned.raw) : returned.raw[i] = text[i]
        /\ returned.error = json_loads(text).error
        /\ returned.error # ""
        /\ dispatches = step
        /\ calls = step + 1
        /\ Len(conversation_context) = step

C7_Witness ==
    /\ Undecodable
    /\ Len(_clean_json_response(reply.text)) > 500
    /\ pc = "returned"
    /\ returned.kind = "invalid_json"
    /\ Len(returned.raw) = 500

\* This step's chat call is over and returned nothing: it raised.
ChatFailed == pc # "chat" /\ step < calls /\ ~reply.received

\* C8: when the chat call of step k raises, the invocation returns the
\* backend-failure message at once: exactly k chat calls have been made, the
\* call is not repeated and nothing is dispatched at step k.
C8_BackendFailureTerminal ==
    ChatFailed =>
        /\ pc = "returned"
        /\ returned.kind = "adapter_error"
        /\ calls = step + 1
        /\ dispatches = step
        /\ Len(conversation_context) = step

C8_Witness ==
    /\ ChatFailed
    /\ pc = "returned"
    /\ returned.kind = "adapter_error"
    /\ calls = 2
    /\ dispatches = 1

\* C9 (as claimed): a reply classified as data_response or final_response at
\* step k ends the invocation at step k with process_input returning its
\* rendering, after exactly k chat calls and with nothing dispatched at
\* step k.
C9_ResponseTerminal ==
    (/\ Answered
     /\ parsed.value.kind = "object"
     /\ "tool_call" \notin parsed.value.keys
     /\ parsed.value.keys # {}) =>
        /\ pc = "returned"
        /\ returned.kind = PriorityKey(parsed.value)
        /\ calls = step + 1
        /\ dispatches = step

\* C10: invoking a name that is not a key of the registry, through
\* invoke_local or through the HTTP route, fails with the unknown-tool error
\* (KeyError, status 404) and runs no operation.
C10_UnknownNameRejected ==
    (rpc.route # "" /\ ~HasKey(registry, rpc.tool_name)) =>
        /\ rpc.ran = NoFn
        /\ rpc.route = "invoke_local" => rpc.answer = "KeyError"
        /\ rpc.route = "POST /invoke" => rpc.answer = "404"

C10_Witness ==
    /\ rpc.route = "invoke_local"
    /\ registry # <<>>
    /\ ~HasKey(registry, rpc.tool_name)
    /\ rpc.answer = "KeyError"
    /\ rpc.ran = NoFn

\* The names list_tools() returns, and the names invoke_local and the HTTP
\* route do not reject as unknown, in the registry as it is now.
Listed == KeySet(list_tools(registry))
AcceptedLocally ==
    {n \in InvokeNames :
        \A b \in Behaviours :
            invoke_local(registry, n, ArgsEmpty, b).exc # Exception("KeyError", <<"tool not found">>)}
AcceptedByRoute ==
    {n \in InvokeNames :
        \A b \in Behaviours : _invoke_tool(registry, n, ArgsEmpty, b).status # 404}

\* C11: after any sequence of registrations, the names list_tools() returns
\* are exactly the names invoke does not reject as unknown.
C11_ListedIsAccepted ==
    /\ Listed \subseteq InvokeNames
    /\ Listed = AcceptedLocally
    /\ Listed = AcceptedByRoute

C11_Witness ==
    /\ imported = Len(ImportOrder)
    /\ Cardinality(Listed) >= 2
    /\ rpc.route = "invoke_local"
    /\ rpc.tool_name \in Listed
    /\ rpc.answer = "returned"

\* This step is a @tool() decorator registering a function under a name the
\* registry already holds.
DuplicateRegistration ==
    /\ imported' = imported + 1
    /\ HasKey(registry, fn_name(ImportOrder[imported']))

Descriptor(reg, k) == Lookup(list_tools(reg), k)

RequestsUnlisted ==
    /\ Answered
    /\ parsed.value.kind = "object"
    /\ "tool_call" \in parsed.value.keys
    /\ parsed.value.tool_call.is_map
    /\ parsed.value.tool_call.name.kind = "str"
    /\ ~HasKey(tools, parsed.value.tool_call.name.text)

\* C14: the agent validates a tool_call against the names list_tools() gave
\* when it was constructed: a tool_call naming a tool that is not among them
\* ends the invocation with the unknown-tool message listing the snapshot's
\* names and is not dispatched, also when the tool has been registered since
\* and invoke_local would accept the name.
C14_SnapshotDecides ==
    /\ constructed => \A i \in 1..Len(tools) : HasKey(registry, tools[i].name)
    /\ RequestsUnlisted =>
          /\ pc = "returned"
          /\ returned = [kind |-> "unknown_tool",
                         requested |-> parsed.value.tool_call.name.text,
                         available |-> Keys(tools)]
          /\ dispatches = step
          /\ calls = step + 1

C14_Witness ==
    /\ RequestsUnlisted
    /\ HasKey(registry, parsed.value.tool_call.name.text)
    /\ parsed.value.tool_call.name.text \in AcceptedLocally
    /\ tools # <<>>
    /\ pc = "returned"
    /\ returned.kind = "unknown_tool"

\* The dispatch in progress cannot bind its arguments: no operation will run.
BindingFails ==
    \A b \in Behaviours : invoke_local(registry, tool_name.text, tool_args, b).ran = NoFn

Mentions(rec, frag) == \E i \in 1..Len(rec.error) : rec.error[i] = frag

\* The fault behind a ToolError is a call that lacked required parameters.
MissingParameterFault(rec) ==
    \/ Mentions(rec, "missing 1 required positional argument")
    \/ Mentions(rec, "missing 2 required positional arguments")

\* C16 (as claimed): the ToolError of a dispatch that failed for a missing
\* required parameter has the tool, the args, a message, a recovery
\* instruction and a hint naming pod_name; the ToolError of any other fault
\* has the tool, the args and the message only.
C16_HintNamesPodName ==
    \A i \in 1..Len(conversation_context) :
        LET rec == conversation_context[i] IN
        IsToolError(rec) =>
            IF MissingParameterFault(rec)
            THEN /\ DOMAIN rec = {"tool", "args", "error", "hint", "recovery"}
                 /\ rec.hint.requires = "pod_name"
            ELSE DOMAIN rec = {"tool", "args", "error"}

\* C16 (amended): when the message of the fault has "missing 1 required
\* positional argument", the ToolError has the tool requested, the args, the
\* message after "Parameter mismatch: ", the recovery instruction and a hint;
\* the hint names pod_name when the message mentions pod_name and is empty
\* otherwise.  For every other fault, several missing parameters and an
\* unexpected keyword included, the ToolError has the tool, the args and the
\* message only.
C16_HintOnlyForPodName ==
    \A i \in 1..Len(conversation_context) :
        LET rec == conversation_context[i] IN
        IsToolError(rec) =>
            /\ rec.tool = requested[i]
            /\ IF Mentions(rec, "missing 1 required positional argument")
               THEN /\ DOMAIN rec = {"tool", "args", "error", "hint", "recovery"}
                    /\ rec.error[1] = "Parameter mismatch: "
                    /\ rec.recovery = "Retry with correct parameter names"
                    /\ IF Mentions(rec, "pod_name")
                       THEN rec.hint = [requires |-> "pod_name",
                                        used |-> ArgKeys(rec.args), instead_of |-> "pod"]
                       ELSE rec.hint = [requires |-> "", used |-> {}, instead_of |-> ""]
               ELSE DOMAIN rec = {"tool", "args", "error"}

C16_Witness ==
    \E i, j \in 1..Len(conversation_context) :
        /\ IsToolError(conversation_context[i])
        /\ IsToolError(conversation_context[j])
        /\ Mentions(conversation_context[i], "pod_name")
        /\ conversation_context[i].hint.requires = "pod_name"
        /\ Mentions(conversation_context[j], "deployment_name")
        /\ Mentions(conversation_context[j], "missing 1 required positional argument")
        /\ conversation_context[j].hint.requires = ""

\* C17: a document wrapped between an opening marker (with or without
\* "json") and a closing marker, after an opening marker only, before a
\* closing marker only, or not wrapped, with or without whitespace around it,
\* is cleaned to the document itself, so it decodes to the value of the
\* document and is handled as the document is.
C17_FenceStrippingSymmetric ==
    (reply.received /\ step < calls) =>
        \A d \in Payloads :
            reply.text \in Wrappings(d) =>
                /\ _clean_json_response(reply.text) = <<d>>
                /\ parsed = [ok |-> TRUE, value |-> DocValue(d), error |-> ""]
                /\ Outcome = Classify(DocValue(d), tools)

C17_Witness ==
    /\ reply.received
    /\ step < calls
    /\ reply.text = <<" ">> \o FenceJson \o <<"\n", "{tool_call:get_pods(namespace)}", "\n">>
                        \o Fence \o <<"\n", " ">>
    /\ parsed.value = DocValue("{tool_call:get_pods(namespace)}")
    /\ pc = "dispatch"

\* This step is a call of process_input: a new invocation with its own context.
NewInvocation == pc \in {"idle", "returned", "raised"} /\ pc' = "loop"

\* C18: within one invocation of process_input every step leaves the
\* context as it was or extends it by one record at the end, and what a chat
\* call is sent as the conversation is the context as it is then.
C18_ContextAppendOnly ==
    /\ [][\/ NewInvocation
          \/ conversation_context' = conversation_context
          \/ /\ Len(conversation_context') = Len(conversation_context) + 1
             /\ SubSeq(conversation_context', 1, Len(conversation_context))
                    = conversation_context]_vars
    /\ [](pc = "chat" =>
            /\ sent.user.has_conversation = (conversation_context # <<>>)
            /\ sent.user.conversation = conversation_context)

C18_Witness ==
    /\ step = 2
    /\ Len(conversation_context) = 2
    /\ conversation_context[1] # conversation_context[2]
    /\ IsToolError(conversation_context[1])
    /\ IsToolResult(conversation_context[2])

\* What a LocalAdapter that was new when the invocation began replies with on
\* the invocation's calls-th chat call, and what the invocation then returns.
FreshReply == IF calls = 1 THEN <<"{tool_call:get_pods(namespace)}">>
              ELSE <<"{final_response:local}">>
LocalRendering ==
    << <<"## Analysis">>,
       <<"Cluster analysis complete. Found pods in default namespace.">>,
       <<"\n## Recommendation">>,
       <<"All systems appear operational.">>,
       <<"\n## Suggested Command">>,
       <<"~~~bash\n", "kubectl get pods -n default", "\n~~~">>,
       <<"\n## Post-Checks">>,
       <<"- ", "Monitor pod restarts">>,
       <<"- ", "Check resource usage">>,
       <<"\n*Confidence: ", "85", "%*">> >>

\* An invocation on an agent with the offline adapter, a budget of two steps
\* or more and get_pods in its snapshot.
OfflineInvocation ==
    /\ constructed
    /\ adapter = "LocalAdapter"
    /\ pc # "idle"
    /\ max_steps >= 2
    /\ HasKey(tools, "get_pods")

\* C19 (as claimed): an invocation on an agent with the offline adapter gets
\* the same replies, makes the same dispatches and returns the same text
\* whether or not the agent served other invocations before it: those of an
\* invocation on a new agent.
C19_InvocationsIndependent ==
    OfflineInvocation =>
        /\ reply.received => reply.text = FreshReply
        /\ Ended =>
              /\ calls = 2
              /\ requested = <<NameStr("get_pods")>>
              /\ returned = [kind |-> "final_response", lines |-> LocalRendering]

\* The offline adapter was new when this invocation began: every chat call
\* it has counted is one of this invocation.
Fresh == call_count = (IF pc = "chat" THEN calls - 1 ELSE calls)

\* C20: with an offline adapter that is new and a budget of two or more,
\* process_input makes exactly two chat calls: the reply to the first
\* dispatches get_pods with {namespace: default} and the context gains one
\* record; the reply to the second is the fixed final_response, returned
\* rendered with its sections, command block, two post-check bullets and
\* "Confidence: 85%".
C20_OfflineScenario ==
    (OfflineInvocation /\ Fresh) =>
        /\ calls <= 2
        /\ reply.received => reply.text = FreshReply
        /\ (calls = 1 /\ pc # "chat") =>
              /\ pc \in {"dispatch", "loop"}
              /\ requested = <<NameStr("get_pods")>>
              /\ tool_args = ArgsNamespace
              /\ dispatches = 1
              /\ Len(conversation_context) = step
        /\ (calls = 2 /\ pc # "chat") =>
              /\ pc = "returned"
              /\ dispatches = 1
              /\ Len(conversation_context) = 1
              /\ conversation_context[1].tool = NameStr("get_pods")
              /\ conversation_context[1].args = ArgsNamespace
              /\ returned = [kind |-> "final_response", lines |-> LocalRendering]
        /\ Ended => calls = 2

C20_Witness ==
    /\ OfflineInvocation
    /\ Fresh
    /\ pc = "returned"
    /\ calls = 2
    /\ IsToolResult(conversation_context[1])
    /\ returned.kind = "final_response"

\* The invocation returned the rendering of this step's data_response.
RenderedData ==
    /\ pc = "returned"
    /\ returned.kind = "data_response"
    /\ parsed.ok
    /\ "data_response" \in parsed.value.keys

\* A line of the returned rendering.
HasLine(line) == \E j \in 1..Len(returned.lines) : returned.lines[j] = line

\* C21 (as claimed): a rendered data_response has every item as a bullet,
\* whatever its format, unless the format is "table" and every item is a
\* mapping, when each item is its "key: value" lines; with format "table" and
\* an item that is no mapping every item is a bullet.
C21_EveryItemRendered ==
    RenderedData =>
        LET resp == parsed.value.data_response
            items == resp.items
        IN  IF resp.format = "table" /\ \A i \in 1..Len(items) : items[i].is_map
            THEN \A i \in 1..Len(items) : \A k \in 1..Len(items[i].pairs) :
                    HasLine(<<"**", items[i].pairs[k][1], "**: ", items[i].pairs[k][2]>>)
            ELSE \A i \in 1..Len(items) : HasLine(<<"- ", items[i].text>>)

\* The invocation returned the rendering of this step's final_response.
RenderedFinal ==
    /\ pc = "returned"
    /\ returned.kind = "final_response"
    /\ parsed.ok
    /\ "final_response" \in parsed.value.keys

\* Where a line is in the returned rendering (0 when it is not there).
LineAt(line) ==
    IF HasLine(line) THEN CHOOSE j \in 1..Len(returned.lines) : returned.lines[j] = line
    ELSE 0

\* C22: a rendered final_response has Analysis, Recommendation, the YAML
\* block, the command block, the post-check bullets and the confidence line,
\* in that order; each of the three optional sections is there exactly when
\* its field is present and not empty, the confidence line is the last
\* line, and a final_response without confidence shows 0%.
C22_FinalSectionsInOrder ==
    RenderedFinal =>
        LET resp == parsed.value.final_response
            L == returned.lines
            yaml == LineAt(<<"\n## Generated YAML">>)
            kubectl == LineAt(<<"\n## Suggested Command">>)
            checks == LineAt(<<"\n## Post-Checks">>)
            n == Len(resp.post_checks)
        IN  /\ L[1] = <<"## Analysis">>
            /\ L[2] = <<IF resp.analysis = Absent THEN "N/A" ELSE resp.analysis>>
            /\ L[3] = <<"\n## Recommendation">>
            /\ L[4] = <<IF resp.recommendation = Absent THEN "N/A" ELSE resp.recommendation>>
            /\ (yaml # 0) = (resp.yaml # <<>>)
            /\ (kubectl # 0) = (resp.kubectl # "")
            /\ (checks # 0) = (resp.post_checks # <<>>)
            /\ yaml # 0 => yaml = 5 /\ Head(L[6]) = "~~~yaml\n"
            /\ kubectl # 0 =>
                  /\ kubectl = (IF yaml # 0 THEN 7 ELSE 5)
                  /\ L[kubectl + 1] = <<"~~~bash\n", resp.kubectl, "\n~~~">>
            /\ checks # 0 =>
                  /\ checks > yaml /\ checks > kubectl
                  /\ checks + n + 1 = Len(L)
                  /\ \A i \in 1..n : L[checks + i] = <<"- ", resp.post_checks[i]>>
            /\ Len(L) = 5 + (IF yaml # 0 THEN 2 ELSE 0) + (IF kubectl # 0 THEN 2 ELSE 0)
                          + (IF checks # 0 THEN n + 1 ELSE 0)
            /\ L[Len(L)] = <<"\n*Confidence: ",
                             ToString(IF resp.confidence.kind = "absent" THEN 0
                                      ELSE resp.confidence.pct),
                             "%*">>

C22_Witness ==
    /\ RenderedFinal
    /\ parsed.value.final_response = FullFinal
    /\ Len(returned.lines) = 11

\* The dispatches of this invocation that have started and not completed.
OutstandingDispatches == dispatches - Len(conversation_context)

\* C23: within an invocation chat calls and dispatches alternate and never
\* overlap: a chat call is issued only when every dispatch made so far has
\* completed, a dispatch starts only when the chat call of its step has
\* returned, and at most one chat call or one dispatch is outstanding.
C23_CallsAndDispatchesAlternate ==
    /\ [](/\ OutstandingDispatches \in {0, 1}
          /\ (OutstandingDispatches = 1) = (pc = "dispatch")
          /\ pc = "chat" => calls = step + 1 /\ ~reply.received
          /\ pc = "dispatch" => reply.received /\ calls = dispatches)
    /\ [][/\ calls' = calls + 1 =>
                pc = "loop" /\ pc' = "chat" /\ OutstandingDispatches = 0 /\ calls = step
          /\ dispatches' = dispatches + 1 =>
                pc = "chat" /\ pc' = "dispatch" /\ reply'.received /\ calls = dispatches']_vars

C23_Witness ==
    /\ pc = "chat"
    /\ calls = 2
    /\ dispatches = 1
    /\ Len(conversation_context) = 1

\* C24: a step attempts its operation at most once: a dispatch that failed
\* is over, and an operation is dispatched again only on the request of a
\* later reply, so there are never more dispatches than chat calls.
C24_OneAttemptPerStep ==
    /\ [](dispatches <= calls /\ dispatches = Len(requested))
    /\ [][/\ dispatches' > dispatches =>
                /\ dispatches' = dispatches + 1
                /\ pc = "chat"
                /\ reply'.received
                /\ parsed'.ok
                /\ "tool_call" \in parsed'.value.keys
                /\ requested' = Append(requested, parsed'.value.tool_call.name)
          /\ (pc = "dispatch" /\ pc' # "dispatch") =>
                /\ pc' = "loop"
                /\ step' = step + 1
                /\ dispatches' = dispatches]_vars

C24_Witness ==
    /\ pc = "dispatch"
    /\ dispatches = 2
    /\ calls = 2
    /\ IsToolError(conversation_context[1])
    /\ requested[1] = requested[2]

\* An invocation of process_input is in progress.
InProgress == pc \in {"loop", "chat", "dispatch"}

Foreign(t, context) ==
    {i \in 1..Len(context) : i > Len(threads[t].own) \/ context[i] # threads[t].own[i]}

\* C27: when two invocations of process_input are interleaved, the context
\* of each holds the records of its own dispatches and no other, in their
\* order, and the message each sends to the backend carries its own question
\* and records of its own dispatches only.
C27_ContextsIsolated ==
    \A t \in Threads :
        /\ threads[t].conversation_context = threads[t].own
        /\ Foreign(t, threads[t].sent.user.conversation) = {}
        /\ Foreign(t, threads[t].user_msg.conversation) = {}
        /\ threads[t].sent.user.user_question \in {"", ThreadQuestion(t)}

C27_Witness ==
    /\ threads[1].pc = "chat"
    /\ threads[2].pc = "dispatch"
    /\ Len(threads[1].conversation_context) = 1
    /\ Len(threads[2].conversation_context) = 1
    /\ threads[1].conversation_context # threads[2].conversation_context
    /\ threads[1].sent.user.conversation = threads[1].own

\* The context after a dispatch came back: what it was, and one record more.
Appended == conversation_context'[Len(conversation_context')]

\* C28: a tool_call step that names a tool of the snapshot appends exactly
\* one record, with the name and the args the step asked for and with either
\* a result or an error; so the context is as long as the dispatches that
\* came back are many, and has max_steps records when the budget message is
\* returned.
C28_OneRecordPerDispatch ==
    [][/\ pc' = "dispatch" /\ pc # "dispatch" =>
             /\ HasKey(tools, tool_name'.text)
             /\ tool_name' = parsed'.value.tool_call.name
             /\ tool_args' = IF parsed'.value.tool_call.has_args
                             THEN parsed'.value.tool_call.args ELSE ArgsEmpty
       /\ pc = "dispatch" /\ pc' # "dispatch" =>
             /\ Len(conversation_context') = Len(conversation_context) + 1
             /\ SubSeq(conversation_context', 1, Len(conversation_context))
                    = conversation_context
             /\ Appended.tool = tool_name
             /\ Appended.args = tool_args
             /\ IsToolResult(Appended) # IsToolError(Appended)
       /\ Len(conversation_context')
              = dispatches' - (IF pc' = "dispatch" THEN 1 ELSE 0)
       /\ pc' = "returned" /\ returned'.kind = "max_steps" =>
              Len(conversation_context') = max_steps'
      ]_vars

C28_Witness ==
    /\ pc = "returned"
    /\ returned.kind = "max_steps"
    /\ max_steps = 2
    /\ dispatches = 2
    /\ IsToolError(conversation_context[1])
    /\ IsToolResult(conversation_context[2])
    /\ conversation_context[2].args = ArgsNamespace

\* The dispatcher's answer to a name it has no binding for.
UnknownTool == Exception("KeyError", <<"tool not found">>)

\* C29: every name of the agent's snapshot is a name of the registry from
\* the construction on, so the dispatcher never answers a dispatch of the
\* loop with its unknown-tool fault, and no record of the context reports it.
C29_SnapshotStaysRegistered ==
    /\ KeySet(tools) \subseteq KeySet(registry)
    /\ pc = "dispatch" =>
          /\ HasKey(registry, tool_name.text)
          /\ \A b \in Behaviours :
                invoke_local(registry, tool_name.text, tool_args, b).exc # UnknownTool
    /\ \A i \in 1..Len(conversation_context) :
          IsToolError(conversation_context[i]) =>
              conversation_context[i].error # UnknownTool.msg

C29_Witness ==
    /\ pc = "dispatch"
    /\ tools # <<>>
    /\ Len(tools) < Len(registry)
    /\ Lookup(registry, tool_name.text).fn = "tools_enhanced.get_persistent_volumes"
    /\ Len(conversation_context) = 1

\* The operation reported its own failure in the mapping it returned.
ReportsFailure(value) == value.text = "{error: failed to list}"

\* C30: the record a dispatch leaves is a ToolError exactly when the
\* dispatch raised, made from the exception; when it returned, a mapping
\* with an "error" key included, the record is a ToolResult whose result is
\* the value returned.
C30_ReturnedErrorIsResult ==
    [][pc = "dispatch" /\ pc' # "dispatch" =>
          \E b \in Behaviours :
             LET r == invoke_local(registry, tool_name.text, tool_args, b) IN
             /\ IsToolError(conversation_context'[Len(conversation_context')]) = r.raised
             /\ r.raised =>
                   conversation_context'[Len(conversation_context')]
                       = _handle_tool_error(tool_name, tool_args, r.exc)
             /\ ~r.raised =>
                   /\ IsToolResult(conversation_context'[Len(conversation_context')])
                   /\ conversation_context'[Len(conversation_context')].result = r.value
      ]_vars

C30_Witness ==
    /\ pc = "loop"
    /\ Len(conversation_context) = 2
    /\ IsToolResult(conversation_context[1])
    /\ ReportsFailure(conversation_context[1].result)
    /\ IsToolError(conversation_context[2])

====
